---- MODULE Spec2Model ----
(***************************************************************************)
(* Model of torchrl/trainers/loggers.py: the Logger template and its       *)
(* TensorboardLogger adapter, driven by a training loop that constructs    *)
(* one logger and then calls log_scalar, log_video, log_hparams and        *)
(* __repr__ on it.  The SummaryWriter session is a recording double: it    *)
(* appends every logging call it receives to backendLog and either returns *)
(* or raises.  Python strings that the code formats, sorts or joins are    *)
(* sequences of code points; opaque strings are TLA+ strings.              *)
(***************************************************************************)
EXTENDS Integers, Sequences, FiniteSets, TLC

\* ---------------------------------------------------------------- bounds
MaxCalls == 4      \* operations the training loop invokes in one run
MaxLog == 2        \* logging calls the session double records
MaxKeys == 2       \* attributes of a cfg object

\* ------------------------------------------------- Python values, errors
None == <<>>
Some(x) == <<x>>

ImportErr ==
  [kind |-> "ImportError", msg |-> "torch.utils.tensorboard could not be imported"]
MoviepyErr ==
  [kind |-> "Exception",
   msg |-> "moviepy not found, videos cannot be logged with TensorboardLogger"]
BackendErrors == {[kind |-> "RuntimeError", msg |-> "backend call failed"]}
BackendOutcomes == {None} \cup {Some(e) : e \in BackendErrors}

\* Python's built-in exception hierarchy, as far as the kinds above need it.
Parent(k) ==
  CASE k = "ImportError" -> "Exception"
    [] k = "RuntimeError" -> "Exception"
    [] k = "Exception" -> "BaseException"
    [] OTHER -> "BaseException"
ErrorKinds == {"ImportError", "RuntimeError", "Exception", "BaseException"}
\* `except handler:` catches an error of kind k
Catches(handler, k) ==
  \/ handler = k
  \/ handler = Parent(k)
  \/ handler = Parent(Parent(k))

\* ------------------------------------------------------ strings and str()
RECURSIVE StrLess(_, _)
\* a < b on Python strings: code point by code point, a proper prefix first
StrLess(a, b) ==
  IF a = <<>> THEN b # <<>>
  ELSE IF b = <<>> THEN FALSE
  ELSE IF Head(a) # Head(b) THEN Head(a) < Head(b)
  ELSE StrLess(Tail(a), Tail(b))

RECURSIVE Decimal(_)
Decimal(n) ==
  IF n < 10 THEN <<48 + n>> ELSE Decimal(n \div 10) \o <<48 + (n % 10)>>

\* str(val) of an int <<"int", n>> or of the float k/10 <<"float", k>>, 0<k<10
Str(val) ==
  IF val[1] = "int" THEN Decimal(val[2]) ELSE <<48, 46, 48 + val[2]>>

\* f"{k}: {val}"
Format(item) == item[1] \o <<58, 32>> \o Str(item[2])

\* (k, val) < (k2, val2) on tuples; the keys of one dict are distinct, so the
\* comparison is always decided by the keys
ItemLess(x, y) == StrLess(x[1], y[1])

RECURSIVE Insert(_, _)
Insert(x, s) ==
  IF s = <<>> THEN <<x>>
  ELSE IF ItemLess(x, Head(s)) THEN <<x>> \o s
  ELSE <<Head(s)>> \o Insert(x, Tail(s))

RECURSIVE sorted(_)
sorted(s) == IF s = <<>> THEN <<>> ELSE Insert(Head(s), sorted(Tail(s)))

RECURSIVE join(_, _)
\* sep.join(parts)
join(sep, parts) ==
  IF parts = <<>> THEN <<>>
  ELSE IF Len(parts) = 1 THEN parts[1]
  ELSE parts[1] \o sep \o join(sep, Tail(parts))

HparamsTextUnsorted(cfg) ==
  join(<<10, 9>>, [i \in 1..Len(cfg) |-> Format(cfg[i])])

\* txt of log_hparams; cfg is vars(cfg).items() in insertion order
HparamsText(cfg) ==
  LET s == sorted(cfg)
  IN join(<<10, 9>>, [i \in 1..Len(s) |-> Format(s[i])])

\* ------------------------------------------------------------ input sets
ExpNames == {"run1"}
ScalarNames == {"loss", "reward"}
ScalarValues == {<<"float", 5>>}
Steps == {None, Some(10)}
VideoNames == {"video"}
Videos == {"tensor"}
VideoKwargs == {{}, {<<"fps", 4>>}}

KeyLr == <<108, 114>>                    \* "lr"
KeyBatch == <<98, 97, 116, 99, 104>>     \* "batch"
KeyB == <<98>>                           \* "b"
HparamItems ==
  {<<KeyLr, <<"float", 1>>>>, <<KeyBatch, <<"int", 32>>>>, <<KeyB, <<"int", 7>>>>}

\* the cfg objects: every insertion order of at most MaxKeys distinct keys
Cfgs ==
  UNION {{s \in [1..n -> HparamItems] :
            \A i, j \in 1..n : i # j => s[i][1] # s[j][1]} : n \in 0..MaxKeys}

\* ------------------------------------------------------------------ state
VARIABLES
  phase,                  \* "unconstructed", "ready" (logger returned), "failed"
  exp_name,               \* self.exp_name
  experiment,             \* self.experiment
  log_dir,                \* self.log_dir
  _has_imported_moviepy,  \* self._has_imported_moviepy
  sessionsCreated,        \* SummaryWriter objects created for the instance
  backendLog,             \* logging calls the session received, in order
  sdkInstalled,           \* torch.utils.tensorboard can be imported
  moviepyInstalled,       \* moviepy can be found by the import system
  moviepyLoaded,          \* moviepy is in sys.modules
  nCalls,                 \* operations invoked so far
  nVideoFailed,           \* log_video calls that failed on the missing library
  missingDepKinds,        \* kinds of the errors raised for a missing dependency
  scalarCalls,            \* arguments of the log_scalar calls, in order
  hparamCalls,            \* arguments of the log_hparams calls, in order
  last                    \* outcome of the latest operation

vars ==
  <<phase, exp_name, experiment, log_dir, _has_imported_moviepy,
    sessionsCreated, backendLog, sdkInstalled, moviepyInstalled, moviepyLoaded,
    nCalls, nVideoFailed, missingDepKinds, scalarCalls, hparamCalls, last>>

fields == <<exp_name, experiment, log_dir, _has_imported_moviepy>>
env == <<sdkInstalled, moviepyInstalled, moviepyLoaded>>

Outcome(op, raised, attempted, ret) ==
  [op |-> op, raised |-> raised, importAttempted |-> attempted, returned |-> ret]

\* `import moviepy` succeeds
MoviepyImportable == moviepyLoaded \/ moviepyInstalled

Init ==
  /\ phase = "unconstructed"
  /\ exp_name = None
  /\ experiment = None
  /\ log_dir = None
  /\ _has_imported_moviepy = None
  /\ sessionsCreated = 0
  /\ backendLog = <<>>
  /\ sdkInstalled \in BOOLEAN
  /\ moviepyInstalled \in BOOLEAN
  /\ moviepyLoaded = FALSE
  /\ nCalls = 0
  /\ nVideoFailed = 0
  /\ missingDepKinds = {}
  /\ scalarCalls = <<>>
  /\ hparamCalls = <<>>
  /\ last = Outcome("none", None, FALSE, None)

\* SummaryWriter(log_dir=name)
SummaryWriter(id, name) == [id |-> id, log_dir |-> name]

\* the session's own __repr__
SessionRepr(session) == <<"SummaryWriter", session.id>>

\* what the session double records of one call: the call and how it ended
Received(call, outcome) == [call |-> call, raised |-> outcome]

\* TensorboardLogger._create_experiment
_create_experiment(name) ==
  IF sdkInstalled
  THEN [raised |-> None, ret |-> Some(SummaryWriter(sessionsCreated + 1, name))]
  ELSE [raised |-> Some(ImportErr), ret |-> None]

\* mutant: log_dir is read from a second, freshly created experiment
ConstructRecreates(name) ==
  /\ phase \in {"unconstructed", "failed"}
  /\ nCalls < MaxCalls
  /\ nCalls' = nCalls + 1
  /\ exp_name' = Some(name)
  /\ LET r == _create_experiment(name)
     IN IF r.raised = None
        THEN /\ experiment' = r.ret
             /\ sessionsCreated' = sessionsCreated + 2
             /\ log_dir' = Some(r.ret[1].log_dir)
             /\ _has_imported_moviepy' = Some(FALSE)
             /\ phase' = "ready"
             /\ last' = Outcome("__init__", None, FALSE, None)
             /\ UNCHANGED missingDepKinds
        ELSE /\ experiment' = None
             /\ sessionsCreated' = 0
             /\ log_dir' = None
             /\ _has_imported_moviepy' = None
             /\ phase' = "failed"
             /\ last' = Outcome("__init__", r.raised, FALSE, None)
             /\ missingDepKinds' = missingDepKinds \cup {r.raised[1].kind}
  /\ UNCHANGED <<backendLog, env, nVideoFailed, scalarCalls, hparamCalls>>

\* mutant: the flag is initialised before super().__init__ runs
ConstructFlagFirst(name) ==
  /\ phase \in {"unconstructed", "failed"}
  /\ nCalls < MaxCalls
  /\ nCalls' = nCalls + 1
  /\ exp_name' = Some(name)
  /\ _has_imported_moviepy' = Some(FALSE)
  /\ LET r == _create_experiment(name)
     IN IF r.raised = None
        THEN /\ experiment' = r.ret
             /\ sessionsCreated' = sessionsCreated + 1
             /\ log_dir' = Some(r.ret[1].log_dir)
             /\ phase' = "ready"
             /\ last' = Outcome("__init__", None, FALSE, None)
             /\ UNCHANGED missingDepKinds
        ELSE /\ experiment' = None
             /\ sessionsCreated' = 0
             /\ log_dir' = None
             /\ phase' = "failed"
             /\ last' = Outcome("__init__", r.raised, FALSE, None)
             /\ missingDepKinds' = missingDepKinds \cup {r.raised[1].kind}
  /\ UNCHANGED <<backendLog, env, nVideoFailed, scalarCalls, hparamCalls>>

\* TensorboardLogger(exp_name=name): Logger.__init__ stores the name and
\* creates the experiment, then TensorboardLogger.__init__ sets log_dir and
\* the flag.  An error leaves the object unreturned; the caller may try again
\* with a new object.
Construct(name) ==
  /\ phase \in {"unconstructed", "failed"}
  /\ nCalls < MaxCalls
  /\ nCalls' = nCalls + 1
  /\ exp_name' = Some(name)
  /\ LET r == _create_experiment(name)
     IN IF r.raised = None
        THEN /\ experiment' = r.ret
             /\ sessionsCreated' = sessionsCreated + 1
             /\ log_dir' = Some(r.ret[1].log_dir)
             /\ _has_imported_moviepy' = Some(FALSE)
             /\ phase' = "ready"
             /\ last' = Outcome("__init__", None, FALSE, None)
             /\ UNCHANGED missingDepKinds
        ELSE /\ experiment' = None
             /\ sessionsCreated' = 0
             /\ log_dir' = None
             /\ _has_imported_moviepy' = None
             /\ phase' = "failed"
             /\ last' = Outcome("__init__", r.raised, FALSE, None)
             /\ missingDepKinds' = missingDepKinds \cup {r.raised[1].kind}
  /\ UNCHANGED <<backendLog, env, nVideoFailed, scalarCalls, hparamCalls>>

\* mutant: the step is not passed on
AddScalarNoStep(name, value, step) ==
  [op |-> "add_scalar", session |-> experiment[1].id,
   tag |-> name, scalar_value |-> value, global_step |-> None]

\* self.experiment.add_scalar(name, value, global_step=step)
AddScalar(name, value, step) ==
  [op |-> "add_scalar", session |-> experiment[1].id,
   tag |-> name, scalar_value |-> value, global_step |-> step]

\* self.experiment.add_video(tag=name, vid_tensor=video, global_step=step, **kwargs)
AddVideo(name, video, step, kwargs) ==
  [op |-> "add_video", session |-> experiment[1].id,
   tag |-> name, vid_tensor |-> video, global_step |-> step, kwargs |-> kwargs]

\* self.experiment.add_text("hparams", txt)
AddText(txt) ==
  [op |-> "add_text", session |-> experiment[1].id, tag |-> "hparams", text |-> txt]

\* mutant: exp_name is overwritten with the scalar's name
log_scalarRenames(name, value, step, outcome) ==
  /\ phase = "ready"
  /\ nCalls < MaxCalls
  /\ Len(backendLog) < MaxLog
  /\ nCalls' = nCalls + 1
  /\ exp_name' = Some(name)
  /\ backendLog' = Append(backendLog, Received(AddScalar(name, value, step), outcome))
  /\ scalarCalls' = Append(scalarCalls, <<name, value, step>>)
  /\ last' = Outcome("log_scalar", outcome, FALSE, None)
  /\ UNCHANGED <<phase, experiment, log_dir, _has_imported_moviepy, sessionsCreated,
                 env, nVideoFailed, missingDepKinds, hparamCalls>>

\* mutant: the moviepy check guards scalar logging too
log_scalarNeedsMoviepy(name, value, step, outcome) ==
  /\ phase = "ready"
  /\ nCalls < MaxCalls
  /\ Len(backendLog) < MaxLog
  /\ nCalls' = nCalls + 1
  /\ scalarCalls' = Append(scalarCalls, <<name, value, step>>)
  /\ IF _has_imported_moviepy = Some(FALSE) /\ ~MoviepyImportable
     THEN /\ outcome = None
          /\ last' = Outcome("log_scalar", Some(MoviepyErr), TRUE, None)
          /\ UNCHANGED backendLog
     ELSE /\ backendLog' =
               Append(backendLog, Received(AddScalar(name, value, step), outcome))
          /\ last' = Outcome("log_scalar", outcome, FALSE, None)
  /\ UNCHANGED <<phase, fields, sessionsCreated, env, nVideoFailed,
                 missingDepKinds, hparamCalls>>

\* TensorboardLogger.log_scalar; outcome is what add_scalar does (None: it
\* returns; an error: it raises that error)
log_scalar(name, value, step, outcome) ==
  /\ phase = "ready"
  /\ nCalls < MaxCalls
  /\ Len(backendLog) < MaxLog
  /\ nCalls' = nCalls + 1
  /\ backendLog' = Append(backendLog, Received(AddScalar(name, value, step), outcome))
  /\ scalarCalls' = Append(scalarCalls, <<name, value, step>>)
  /\ last' = Outcome("log_scalar", outcome, FALSE, None)
  /\ UNCHANGED <<phase, fields, sessionsCreated, env, nVideoFailed,
                 missingDepKinds, hparamCalls>>

\* mutant: the ImportError is swallowed and the video is logged anyway
log_videoSwallows(name, video, step, kwargs, outcome) ==
  /\ phase = "ready"
  /\ nCalls < MaxCalls
  /\ nCalls' = nCalls + 1
  /\ Len(backendLog) < MaxLog
  /\ IF _has_imported_moviepy = Some(FALSE) /\ MoviepyImportable
     THEN /\ _has_imported_moviepy' = Some(TRUE)
          /\ moviepyLoaded' = TRUE
     ELSE UNCHANGED <<_has_imported_moviepy, moviepyLoaded>>
  /\ backendLog' =
       Append(backendLog, Received(AddVideo(name, video, step, kwargs), outcome))
  /\ last' = Outcome("log_video", outcome, _has_imported_moviepy = Some(FALSE), None)
  /\ UNCHANGED <<nVideoFailed, missingDepKinds>>
  /\ UNCHANGED <<phase, exp_name, experiment, log_dir, sessionsCreated,
                 sdkInstalled, moviepyInstalled, scalarCalls, hparamCalls>>

\* mutant: a successful import is not remembered
log_videoNoCache(name, video, step, kwargs, outcome) ==
  /\ phase = "ready"
  /\ nCalls < MaxCalls
  /\ nCalls' = nCalls + 1
  /\ IF _has_imported_moviepy = Some(FALSE) /\ ~MoviepyImportable
     THEN /\ outcome = None
          /\ last' = Outcome("log_video", Some(MoviepyErr), TRUE, None)
          /\ nVideoFailed' = nVideoFailed + 1
          /\ missingDepKinds' = missingDepKinds \cup {MoviepyErr.kind}
          /\ UNCHANGED <<_has_imported_moviepy, moviepyLoaded, backendLog>>
     ELSE /\ Len(backendLog) < MaxLog
          /\ moviepyLoaded' = TRUE
          /\ UNCHANGED _has_imported_moviepy
          /\ backendLog' =
               Append(backendLog, Received(AddVideo(name, video, step, kwargs), outcome))
          /\ last' = Outcome("log_video", outcome,
                             _has_imported_moviepy = Some(FALSE), None)
          /\ UNCHANGED <<nVideoFailed, missingDepKinds>>
  /\ UNCHANGED <<phase, exp_name, experiment, log_dir, sessionsCreated,
                 sdkInstalled, moviepyInstalled, scalarCalls, hparamCalls>>

\* mutant: the flag is set only after add_video has returned
log_videoFlagAfter(name, video, step, kwargs, outcome) ==
  /\ phase = "ready"
  /\ nCalls < MaxCalls
  /\ nCalls' = nCalls + 1
  /\ IF _has_imported_moviepy = Some(FALSE) /\ ~MoviepyImportable
     THEN /\ outcome = None
          /\ last' = Outcome("log_video", Some(MoviepyErr), TRUE, None)
          /\ nVideoFailed' = nVideoFailed + 1
          /\ missingDepKinds' = missingDepKinds \cup {MoviepyErr.kind}
          /\ UNCHANGED <<_has_imported_moviepy, moviepyLoaded, backendLog>>
     ELSE /\ Len(backendLog) < MaxLog
          /\ IF _has_imported_moviepy = Some(FALSE)
             THEN /\ _has_imported_moviepy' = Some(outcome = None)
                  /\ moviepyLoaded' = TRUE
             ELSE UNCHANGED <<_has_imported_moviepy, moviepyLoaded>>
          /\ backendLog' =
               Append(backendLog, Received(AddVideo(name, video, step, kwargs), outcome))
          /\ last' = Outcome("log_video", outcome,
                             _has_imported_moviepy = Some(FALSE), None)
          /\ UNCHANGED <<nVideoFailed, missingDepKinds>>
  /\ UNCHANGED <<phase, exp_name, experiment, log_dir, sessionsCreated,
                 sdkInstalled, moviepyInstalled, scalarCalls, hparamCalls>>

\* TensorboardLogger.log_video; outcome is what add_video does when reached
log_video(name, video, step, kwargs, outcome) ==
  /\ phase = "ready"
  /\ nCalls < MaxCalls
  /\ nCalls' = nCalls + 1
  /\ IF _has_imported_moviepy = Some(FALSE) /\ ~MoviepyImportable
     THEN \* import moviepy raises ImportError, which is replaced by Exception
          /\ outcome = None
          /\ last' = Outcome("log_video", Some(MoviepyErr), TRUE, None)
          /\ nVideoFailed' = nVideoFailed + 1
          /\ missingDepKinds' = missingDepKinds \cup {MoviepyErr.kind}
          /\ UNCHANGED <<_has_imported_moviepy, moviepyLoaded, backendLog>>
     ELSE /\ Len(backendLog) < MaxLog
          /\ IF _has_imported_moviepy = Some(FALSE)
             THEN /\ _has_imported_moviepy' = Some(TRUE)
                  /\ moviepyLoaded' = TRUE
             ELSE UNCHANGED <<_has_imported_moviepy, moviepyLoaded>>
          /\ backendLog' =
               Append(backendLog, Received(AddVideo(name, video, step, kwargs), outcome))
          /\ last' = Outcome("log_video", outcome,
                             _has_imported_moviepy = Some(FALSE), None)
          /\ UNCHANGED <<nVideoFailed, missingDepKinds>>
  /\ UNCHANGED <<phase, exp_name, experiment, log_dir, sessionsCreated,
                 sdkInstalled, moviepyInstalled, scalarCalls, hparamCalls>>

\* TensorboardLogger.log_hparams; outcome is what add_text does
log_hparams(cfg, outcome) ==
  /\ phase = "ready"
  /\ nCalls < MaxCalls
  /\ Len(backendLog) < MaxLog
  /\ nCalls' = nCalls + 1
  /\ backendLog' = Append(backendLog, Received(AddText(HparamsText(cfg)), outcome))
  /\ hparamCalls' = Append(hparamCalls, cfg)
  /\ last' = Outcome("log_hparams", outcome, FALSE, None)
  /\ UNCHANGED <<phase, fields, sessionsCreated, env, nVideoFailed,
                 missingDepKinds, scalarCalls>>

\* TensorboardLogger.__repr__; outcome is what the session's __repr__ does
repr(outcome) ==
  /\ phase = "ready"
  /\ nCalls < MaxCalls
  /\ nCalls' = nCalls + 1
  /\ last' = Outcome("__repr__", outcome, FALSE,
                     IF outcome = None THEN Some(SessionRepr(experiment[1])) ELSE None)
  /\ UNCHANGED <<phase, fields, sessionsCreated, backendLog, env, nVideoFailed,
                 missingDepKinds, scalarCalls, hparamCalls>>

\* The environment: packages are installed or removed between calls.  The
\* SDK is only imported by the constructor, so its presence is only varied
\* while no logger has been returned.
ToggleSdk ==
  /\ phase # "ready"
  /\ sdkInstalled' = ~sdkInstalled
  /\ UNCHANGED <<phase, fields, sessionsCreated, backendLog, moviepyInstalled,
                 moviepyLoaded, nCalls, nVideoFailed, missingDepKinds,
                 scalarCalls, hparamCalls, last>>

\* moviepy is installed or removed; a module already in sys.modules stays there
ToggleMoviepy ==
  /\ moviepyInstalled' = ~moviepyInstalled
  /\ UNCHANGED <<phase, fields, sessionsCreated, backendLog, sdkInstalled,
                 moviepyLoaded, nCalls, nVideoFailed, missingDepKinds,
                 scalarCalls, hparamCalls, last>>

DoConstruct == \E name \in ExpNames : Construct(name)
DoLogScalar ==
  \E name \in ScalarNames, value \in ScalarValues, step \in Steps,
     outcome \in BackendOutcomes : log_scalar(name, value, step, outcome)
DoLogVideo ==
  \E name \in VideoNames, video \in Videos, step \in Steps,
     kwargs \in VideoKwargs, outcome \in BackendOutcomes :
       log_video(name, video, step, kwargs, outcome)
DoLogHparams ==
  \E cfg \in Cfgs, outcome \in BackendOutcomes : log_hparams(cfg, outcome)
DoRepr == \E outcome \in BackendOutcomes : repr(outcome)

Next ==
  \/ DoConstruct
  \/ DoLogScalar
  \/ DoLogVideo
  \/ DoLogHparams
  \/ DoRepr
  \/ ToggleSdk
  \/ ToggleMoviepy

Spec == Init /\ [][Next]_vars

\* ---------------------------------------------------------------- claims
\* the step is an invocation of operation op
IsCall(op) == nCalls' = nCalls + 1 /\ last'.op = op
LoggingOps == {"log_scalar", "log_video", "log_hparams"}
LastReceived == backendLog[Len(backendLog)]

\* C1: a returned logger has had exactly one session created for it, at
\* construction, whatever logging calls followed and however they ended; a
\* logger that was not returned has none.
C1_SessionCreatedOnce ==
  /\ phase = "ready" =>
       /\ sessionsCreated = 1
       /\ experiment = Some(SummaryWriter(1, exp_name[1]))
  /\ phase # "ready" => sessionsCreated = 0

C1_Witness ==
  /\ phase = "ready"
  /\ nVideoFailed >= 1
  /\ Len(backendLog) >= 1
  /\ \E i \in 1..Len(backendLog) : backendLog[i].raised # None
  /\ last.op = "__repr__"

\* C2: every call on a returned logger, returning or raising, leaves
\* exp_name, experiment and log_dir as they were.
C2_FrameFields ==
  [][(phase = "ready" /\ nCalls' = nCalls + 1) =>
       /\ exp_name' = exp_name
       /\ experiment' = experiment
       /\ log_dir' = log_dir
       /\ phase' = "ready"]_vars

C2_Witness ==
  /\ phase = "ready"
  /\ _has_imported_moviepy = Some(TRUE)
  /\ nVideoFailed >= 1
  /\ last.op = "log_hparams"
  /\ last.raised # None

\* C3: a construction attempted while the SDK cannot be imported raises the
\* ImportError, creates no session and returns no logger: experiment, log_dir
\* and the flag are never set.
C3_NoPartialLogger ==
  [][(IsCall("__init__") /\ ~sdkInstalled) =>
       /\ last'.raised = Some(ImportErr)
       /\ phase' = "failed"
       /\ sessionsCreated' = 0
       /\ experiment' = None
       /\ log_dir' = None
       /\ _has_imported_moviepy' = None
       /\ backendLog' = <<>>]_vars

C3_Witness ==
  /\ phase = "failed"
  /\ ~sdkInstalled
  /\ last.op = "__init__"
  /\ last.raised = Some(ImportErr)

\* C4: a log_video call made while moviepy cannot be imported raises the
\* moviepy error, makes no call on the session and leaves the flag false.
C4_VideoUnavailable ==
  [][(IsCall("log_video") /\ ~MoviepyImportable) =>
       /\ last'.raised = Some(MoviepyErr)
       /\ backendLog' = backendLog
       /\ _has_imported_moviepy' = Some(FALSE)]_vars

C4_Witness ==
  /\ nVideoFailed >= 2
  /\ last.op = "log_video"
  /\ last.raised = Some(MoviepyErr)
  /\ _has_imported_moviepy = Some(FALSE)

\* C5: after log_video calls that failed on the missing library, a log_scalar
\* or log_hparams call still forwards exactly its own event to the logger's
\* session, and ends as the backend call ends (it returns when that returns).
C5_FailureIsolation ==
  [][(nVideoFailed > 0 /\ (IsCall("log_scalar") \/ IsCall("log_hparams"))) =>
       LET e == backendLog'[Len(backendLog')]
       IN /\ Len(backendLog') = Len(backendLog) + 1
          /\ backendLog' = Append(backendLog, e)
          /\ e.call.session = experiment[1].id
          /\ last'.raised = e.raised
          /\ IsCall("log_scalar") =>
               /\ e.call.op = "add_scalar"
               /\ <<e.call.tag, e.call.scalar_value, e.call.global_step>>
                    = scalarCalls'[Len(scalarCalls')]
          /\ IsCall("log_hparams") =>
               /\ e.call.op = "add_text"
               /\ e.call.tag = "hparams"]_vars

C5_Witness ==
  /\ nVideoFailed >= 2
  /\ _has_imported_moviepy = Some(FALSE)
  /\ ~MoviepyImportable
  /\ last.op = "log_scalar"
  /\ last.raised = None
  /\ Len(backendLog) = 1

\* C6: the flag is false when the logger is returned, never goes from true
\* to false, a log_video call attempts the import exactly when the flag is
\* false at its start, and an attempt that succeeds sets the flag.
C6_FlagMonotonicGate ==
  [][/\ (phase # "ready" /\ phase' = "ready") => _has_imported_moviepy' = Some(FALSE)
     /\ _has_imported_moviepy = Some(TRUE) => _has_imported_moviepy' = Some(TRUE)
     /\ IsCall("log_video") =>
          /\ last'.importAttempted <=> (_has_imported_moviepy = Some(FALSE))
          /\ (last'.importAttempted /\ last'.raised # Some(MoviepyErr)) =>
               _has_imported_moviepy' = Some(TRUE)]_vars

C6_Witness ==
  /\ nVideoFailed >= 1
  /\ _has_imported_moviepy = Some(TRUE)
  /\ last.op = "log_video"
  /\ ~last.importAttempted
  /\ Len(backendLog) = 2

\* C7: the errors raised for a missing dependency are all of one kind, and
\* some handler catches that kind without catching a backend call's error.
C7_OneDedicatedKind ==
  /\ Cardinality(missingDepKinds) <= 1
  /\ missingDepKinds # {} =>
       \E handler \in ErrorKinds :
         /\ \A k \in missingDepKinds : Catches(handler, k)
         /\ \A e \in BackendErrors : ~Catches(handler, e.kind)

\* C8: the scalar calls the session received are the log_scalar calls made,
\* one for one and in order, each with the call's name, value and step.
ScalarsReceived == SelectSeq(backendLog, LAMBDA e : e.call.op = "add_scalar")
C8_ScalarForwarding ==
  /\ Len(ScalarsReceived) = Len(scalarCalls)
  /\ \A i \in 1..Len(scalarCalls) :
       LET c == ScalarsReceived[i].call
       IN <<c.tag, c.scalar_value, c.global_step>> = scalarCalls[i]

C8_Witness ==
  /\ Len(scalarCalls) = 2
  /\ scalarCalls[1][3] = None
  /\ scalarCalls[2][3] = Some(10)
  /\ scalarCalls[1][1] # scalarCalls[2][1]
  /\ \A i \in 1..2 : backendLog[i].raised = None

\* C9: the text log_hparams forwards under "hparams" is the "key: value"
\* entries in increasing key order joined by newline-tab; mappings with the
\* same content give the same text whatever their insertion order, and
\* {"lr": 0.1, "batch": 32} gives "batch: 32\n\tlr: 0.1".
TextsReceived == SelectSeq(backendLog, LAMBDA e : e.call.op = "add_text")
SameContent(c1, c2) ==
  {c1[i] : i \in 1..Len(c1)} = {c2[i] : i \in 1..Len(c2)}
IsSortedJoin(cfg, text) ==
  LET n == Len(cfg)
  IN \E p \in [1..n -> 1..n] :
       /\ \A i, j \in 1..n : i < j => StrLess(cfg[p[i]][1], cfg[p[j]][1])
       /\ text = join(<<10, 9>>,
                      [i \in 1..n |-> cfg[p[i]][1] \o <<58, 32>> \o Str(cfg[p[i]][2])])
ExampleCfg == <<<<KeyLr, <<"float", 1>>>>, <<KeyBatch, <<"int", 32>>>>>>
ExampleText ==
  <<98, 97, 116, 99, 104, 58, 32, 51, 50, 10, 9, 108, 114, 58, 32, 48, 46, 49>>
C9_HparamsDeterministic ==
  /\ Len(TextsReceived) = Len(hparamCalls)
  /\ \A i \in 1..Len(hparamCalls) :
       /\ TextsReceived[i].call.tag = "hparams"
       /\ IsSortedJoin(hparamCalls[i], TextsReceived[i].call.text)
       /\ SameContent(hparamCalls[i], ExampleCfg) =>
            TextsReceived[i].call.text = ExampleText
       /\ \A j \in 1..Len(hparamCalls) :
            SameContent(hparamCalls[i], hparamCalls[j]) =>
              TextsReceived[i].call.text = TextsReceived[j].call.text

C9_Witness ==
  /\ Len(hparamCalls) = 2
  /\ hparamCalls[1] = ExampleCfg
  /\ hparamCalls[2] = <<ExampleCfg[2], ExampleCfg[1]>>
  /\ TextsReceived[2].call.text = ExampleText

\* C10: a logging call makes at most one call on the session, and when that
\* call raises, the logging call raises the very same error; a log_video call
\* whose import succeeded keeps the flag true even when add_video raises.
C10_NoRetryNoSuppression ==
  [][(\E op \in LoggingOps : IsCall(op)) =>
       /\ Len(backendLog') <= Len(backendLog) + 1
       /\ Len(backendLog') = Len(backendLog) + 1 =>
            /\ SubSeq(backendLog', 1, Len(backendLog)) = backendLog
            /\ last'.raised = backendLog'[Len(backendLog')].raised
            /\ (IsCall("log_video") /\ last'.importAttempted) =>
                 _has_imported_moviepy' = Some(TRUE)]_vars

C10_Witness ==
  /\ last.op = "log_video"
  /\ last.importAttempted
  /\ last.raised \in {Some(e) : e \in BackendErrors}
  /\ LastReceived.raised = last.raised
  /\ _has_imported_moviepy = Some(TRUE)
====
